---- MODULE Spec2Model ----
(***************************************************************************)
(* Job sequencing with deadlines:                                          *)
(* greedy_algorithms/job_sequencing_algorithm.cpp.                         *)
(*                                                                         *)
(* getJobScheduling(arr) sorts the caller's array by deadline, walks it    *)
(* from the last job to the first, pushes each job on a max-heap ordered   *)
(* by profit and pops as many jobs as slots opened between the job and     *)
(* its predecessor; the popped jobs, sorted by deadline, give the ids      *)
(* returned.                                                               *)
(*                                                                         *)
(* The library calls are modelled by what they compute: std::sort is       *)
(* libstdc++'s introsort (one insertion sort for ranges of at most 16      *)
(* elements, median-of-three partitioning above), std::priority_queue is   *)
(* push_heap / pop_heap on a vector.  Deadlines and profits stay far from  *)
(* the limits of int.                                                      *)
(***************************************************************************)
EXTENDS Integers, Sequences, FiniteSets

\* ------------------------------------------------------------------ bounds

\* longest caller array explored
MaxN == 3
\* largest deadline explored
MaxDead == 3
\* largest profit explored
MaxProfit == 3
\* length of the long arrays explored, above std::sort's insertion threshold
\* (and below 25, see IntrosortLoop)
LongN == 17

\* jobs as the file's header describes them: deadline at least 1, a profit
Deadlines == 1 .. MaxDead
Profits == 1 .. MaxProfit
\* jobs the type Job also admits: deadlines and profits around zero
LowDeadlines == (-1) .. 2
LowProfits == (-1) .. 1
Ids ==
    << "a", "b", "c", "d", "e", "f", "g", "h", "i", "j", "k", "l", "m", "n",
       "o", "p", "q", "r", "s", "t", "u", "v", "w", "x" >>

\* ------------------------------------------------------------------- state

VARIABLES
    arr,      \* the caller's std::array<Job, N>, passed by reference
    arr0,     \* the array as the caller built it, before any call
    pc,       \* "caller": outside getJobScheduling; "loop": inside its for loop
    i,        \* the for loop's index (0-based, as in the code)
    pq,       \* the priority queue's underlying vector (a binary max-heap)
    result,   \* std::vector<Job> result
    answer,   \* the std::vector<char> returned by the latest call
    answer1,  \* the std::vector<char> returned by the first call
    calls     \* calls completed; the caller calls twice on the same array

vars == <<arr, arr0, pc, i, pq, result, answer, answer1, calls>>

Job(id, dead, profit) == [id |-> id, dead |-> dead, profit |-> profit]

\* the arrays of tests()
jobs1 ==
    << Job("a", 2, 100), Job("b", 1, 19), Job("c", 2, 27), Job("d", 1, 25),
       Job("e", 3, 15) >>

jobs2 == << Job("x", 1, 50), Job("y", 2, 60), Job("z", 2, 20), Job("w", 3, 30) >>

\* a caller's array of n jobs with the given deadlines and profits
ArrayOf(n, d, p) == [k \in 1..n |-> Job(Ids[k], d[k], p[k])]

\* a long array of patterned jobs: deadlines cycle through 1..b in steps of a,
\* profits through 1..e in steps of c
LongArrayOf(a, b, c, e) ==
    [k \in 1..LongN |-> Job(Ids[k], 1 + ((k * a) % b), 1 + ((k * c) % e))]

\* ------------------------------------------------------------- comparators

jobComparatorReversed(a, b) == b.profit < a.profit

jobComparator(a, b) == a.profit < b.profit

deadLessOrEqual(a, b) == a.dead <= b.dead

deadLess(a, b) == a.dead < b.dead

\* ------------------------------------------------------------------ sorting
\* std::sort as libstdc++ computes it.  Positions are the code's 0-based
\* offsets from the start of the range: offset k is s[k + 1].

\* _S_threshold: ranges up to this length are sorted by insertion alone
SortThreshold == 16

\* std::__lg
RECURSIVE Lg(_)
Lg(n) == IF n <= 1 THEN 0 ELSE 1 + Lg(n \div 2)

\* std::iter_swap
IterSwap(s, a, b) == [s EXCEPT ![a + 1] = s[b + 1], ![b + 1] = s[a + 1]]

\* std::__move_median_to_first(result, a, b, c, comp)
MoveMedianToFirst(s, res, a, b, c) ==
    IF deadLess(s[a + 1], s[b + 1])
    THEN IF deadLess(s[b + 1], s[c + 1]) THEN IterSwap(s, res, b)
         ELSE IF deadLess(s[a + 1], s[c + 1]) THEN IterSwap(s, res, c)
         ELSE IterSwap(s, res, a)
    ELSE IF deadLess(s[a + 1], s[c + 1]) THEN IterSwap(s, res, a)
         ELSE IF deadLess(s[b + 1], s[c + 1]) THEN IterSwap(s, res, c)
         ELSE IterSwap(s, res, b)

\* while (comp(first, pivot)) ++first
RECURSIVE ScanUp(_, _, _)
ScanUp(s, first, pivot) ==
    IF deadLess(s[first + 1], s[pivot + 1]) THEN ScanUp(s, first + 1, pivot)
    ELSE first

\* while (comp(pivot, last)) --last
RECURSIVE ScanDown(_, _, _)
ScanDown(s, last, pivot) ==
    IF deadLess(s[pivot + 1], s[last + 1]) THEN ScanDown(s, last - 1, pivot)
    ELSE last

\* std::__unguarded_partition(first, last, pivot, comp): <<range, cut>>
RECURSIVE UnguardedPartition(_, _, _, _)
UnguardedPartition(s, first, last, pivot) ==
    LET f == ScanUp(s, first, pivot)
        l == ScanDown(s, last - 1, pivot)
    IN  IF ~(f < l) THEN <<s, f>>
        ELSE UnguardedPartition(IterSwap(s, f, l), f + 1, l, pivot)

\* std::__unguarded_partition_pivot(first, last, comp)
UnguardedPartitionPivot(s, first, last) ==
    LET mid == first + (last - first) \div 2
    IN  UnguardedPartition(MoveMedianToFirst(s, first, first + 1, mid, last - 1),
                           first + 1, last, first)

\* std::__introsort_loop(first, last, depth_limit, comp).  The depth limit is
\* 2 * lg(n) and every partition of a range longer than the threshold shortens
\* it, so ranges of fewer than 25 elements never reach depth 0 (the heap sort
\* of std::__partial_sort); the arrays explored are shorter.
RECURSIVE IntrosortLoop(_, _, _, _)
IntrosortLoop(s, first, last, depth) ==
    IF last - first > SortThreshold /\ depth > 0
    THEN LET p == UnguardedPartitionPivot(s, first, last)
         IN  IntrosortLoop(IntrosortLoop(p[1], p[2], last, depth - 1),
                           first, p[2], depth - 1)
    ELSE s

RECURSIVE InsertByDeadPastEqual(_, _)
InsertByDeadPastEqual(s, x) ==
    IF s # <<>> /\ ~deadLess(s[Len(s)], x)
    THEN Append(InsertByDeadPastEqual(SubSeq(s, 1, Len(s) - 1), x), s[Len(s)])
    ELSE Append(s, x)

\* std::__unguarded_linear_insert: x moves left past every element it is
\* less than
RECURSIVE InsertByDead(_, _)
InsertByDead(s, x) ==
    IF s # <<>> /\ deadLess(x, s[Len(s)])
    THEN Append(InsertByDead(SubSeq(s, 1, Len(s) - 1), x), s[Len(s)])
    ELSE Append(s, x)

\* std::__final_insertion_sort: every element in turn is inserted in the
\* sorted range before it
RECURSIVE InsertionSort(_)
InsertionSort(s) ==
    IF s = <<>> THEN <<>>
    ELSE InsertByDead(InsertionSort(SubSeq(s, 1, Len(s) - 1)), s[Len(s)])

\* std::sort(first, last, by dead)
StdSort(s) ==
    IF s = <<>> THEN s
    ELSE InsertionSort(IntrosortLoop(s, 0, Len(s), 2 * Lg(Len(s))))

SortArrNone(s) == s

\* std::sort(arr.begin(), arr.end(), by dead)
SortArr(s) == StdSort(s)

SortResultNone(s) == s

\* sort(result.begin(), result.end(), by dead)
SortResult(s) == StdSort(s)

\* -------------------------------------------------------- priority queue
\* The heap is a vector c; the code's 0-based index k is c[k + 1].

\* std::__push_heap(first, holeIndex, topIndex, value, comp)
RECURSIVE PushHeap(_, _, _, _)
PushHeap(c, holeIndex, topIndex, value) ==
    LET parent == (holeIndex - 1) \div 2
    IN  IF holeIndex > topIndex /\ jobComparator(c[parent + 1], value)
        THEN PushHeap([c EXCEPT ![holeIndex + 1] = c[parent + 1]],
                      parent, topIndex, value)
        ELSE [c EXCEPT ![holeIndex + 1] = value]

pqPushNoHeapify(c, x) == Append(c, x)

\* pq.push(x): c.push_back(x); std::push_heap(c.begin(), c.end(), comp)
pqPush(c, x) == PushHeap(Append(c, x), Len(c), 0, x)

\* the descent of std::__adjust_heap(first, holeIndex, len, value, comp):
\* the hole moves to the larger child; gives <<vector, final hole index>>
RECURSIVE SiftDown(_, _, _)
SiftDown(c, hole, len) ==
    IF hole < (len - 1) \div 2
    THEN LET right == 2 * (hole + 1)
             child == IF jobComparator(c[right + 1], c[right]) THEN right - 1
                      ELSE right
         IN  SiftDown([c EXCEPT ![hole + 1] = c[child + 1]], child, len)
    ELSE IF len % 2 = 0 /\ hole = (len - 2) \div 2
         THEN LET only == 2 * (hole + 1) - 1
              IN  <<[c EXCEPT ![hole + 1] = c[only + 1]], only>>
         ELSE <<c, hole>>

\* pq.top()
pqTop(c) == c[1]

\* pq.pop(): std::pop_heap(c.begin(), c.end(), comp); c.pop_back()
pqPop(c) ==
    IF Len(c) > 1
    THEN LET n == Len(c)
             value == c[n]
             moved == [c EXCEPT ![n] = c[1]]
             down == SiftDown(moved, 0, n - 1)
             heap == PushHeap(down[1], down[2], 0, value)
         IN  SubSeq(heap, 1, n - 1)
    ELSE <<>>

\* ---------------------------------------------------------- the loop body

SlotAvailableNoDelta(a, k) == a[k + 1].dead

\* slot_available for index k: the slots between arr[k - 1] and arr[k]
SlotAvailable(a, k) ==
    IF k = 0 THEN a[k + 1].dead ELSE a[k + 1].dead - a[k].dead

SlotsLeftOrZero(slot) == slot >= 0

\* the while loop's test on slot_available
SlotsLeft(slot) == slot > 0

\* while (slot_available > 0 && pq.size() > 0): gives <<pq, result>>
RECURSIVE Drain(_, _, _)
Drain(q, slot, res) ==
    IF SlotsLeft(slot) /\ Len(q) > 0
    THEN Drain(pqPop(q), slot - 1, Append(res, pqTop(q)))
    ELSE <<q, res>>

\* answer.push_back(result[k].id) for every k
IdsOf(res) == [k \in 1..Len(res) |-> res[k].id]

\* ----------------------------------------------------------------- actions

\* the caller holds array a and has not called yet
StartWith(a) ==
    /\ arr = a
    /\ arr0 = a
    /\ pc = "caller"
    /\ i = 0
    /\ pq = <<>>
    /\ result = <<>>
    /\ answer = <<>>
    /\ answer1 = <<>>
    /\ calls = 0

Init ==
    \/ \E n \in 0..MaxN :
          \E d \in [1..n -> Deadlines], p \in [1..n -> Profits] :
              StartWith(ArrayOf(n, d, p))
    \/ \E n \in 0..MaxN :
          \E d \in [1..n -> LowDeadlines], p \in [1..n -> LowProfits] :
              StartWith(ArrayOf(n, d, p))
    \/ \E a \in {jobs1, jobs2} : StartWith(a)

\* the short arrays of Init and long ones
InitLong ==
    \/ Init
    \/ \E a \in 1..2, b \in {1, 2, 3, LongN}, c \in 1..2, e \in 1..3 :
          StartWith(LongArrayOf(a, b, c, e))

\* entry of getJobScheduling: result and pq are built, arr is sorted in place
Call ==
    /\ pc = "caller"
    /\ calls < 2
    /\ arr' = SortArr(arr)
    /\ result' = <<>>
    /\ pq' = <<>>
    /\ i' = Len(arr) - 1
    /\ pc' = "loop"
    /\ UNCHANGED <<arr0, answer, answer1, calls>>

\* one iteration of for (int i = N - 1; i >= 0; i--)
Iterate ==
    /\ pc = "loop"
    /\ i >= 0
    /\ LET drained == Drain(pqPush(pq, arr[i + 1]), SlotAvailable(arr, i), result)
       IN  /\ pq' = drained[1]
           /\ result' = drained[2]
    /\ i' = i - 1
    /\ UNCHANGED <<arr, arr0, pc, answer, answer1, calls>>

\* the loop has ended: result is sorted, the ids are extracted and returned
Return ==
    /\ pc = "loop"
    /\ i < 0
    /\ result' = SortResult(result)
    /\ answer' = IdsOf(result')
    /\ answer1' = IF calls = 0 THEN answer' ELSE answer1
    /\ calls' = calls + 1
    /\ pc' = "caller"
    /\ UNCHANGED <<arr, arr0, i, pq>>

Next == Call \/ Iterate \/ Return

Spec == Init /\ [][Next]_vars

SpecLong == InitLong /\ [][Next]_vars

\* ------------------------------------------------- vocabulary of the claims

Range(s) == { s[k] : k \in 1..Len(s) }

\* the latest call has returned
Done == pc = "caller" /\ calls >= 1

\* the input job an id of the answer names (ids are distinct in every input)
JobOf(id) == CHOOSE j \in Range(arr0) : j.id = id

Returned == [k \in 1..Len(answer) |-> JobOf(answer[k])]

\* the jobs the first call returned
Returned1 == [k \in 1..Len(answer1) |-> JobOf(answer1[k])]

RECURSIVE SumProfit(_)
SumProfit(s) == IF s = <<>> THEN 0 ELSE s[1].profit + SumProfit(Tail(s))

RECURSIVE SumOver(_)
SumOver(S) ==
    IF S = {} THEN 0
    ELSE LET k == CHOOSE x \in S : TRUE IN arr0[k].profit + SumOver(S \ {k})

MaxOf(S) == CHOOSE x \in S : \A y \in S : y <= x

\* the maximum deadline among the input jobs (0 for no job)
MaxDeadline == MaxOf({0} \cup { arr0[k].dead : k \in 1..Len(arr0) })

\* a set of input positions that can be given distinct slots 1..max(deadline),
\* each no later than its job's deadline: for every slot t, at most t of its
\* jobs are due by t (serve them in deadline order)
Feasible(S) ==
    /\ \A k \in S : arr0[k].dead >= 1
    /\ \A t \in 1..MaxDeadline :
           Cardinality({ k \in S : arr0[k].dead <= t }) <= t

\* the maximum total profit over all feasible schedules, the empty one included
Best == MaxOf({ SumOver(S) : S \in { T \in SUBSET (1..Len(arr0)) : Feasible(T) } })

DeadlinesValid == \A k \in 1..Len(arr0) : arr0[k].dead >= 1

DeadlinesDistinct ==
    \A k, l \in 1..Len(arr0) : k # l => arr0[k].dead # arr0[l].dead

ProfitsPositive == \A k \in 1..Len(arr0) : arr0[k].profit > 0

Count(s, x) == Cardinality({ k \in 1..Len(s) : s[k] = x })

\* ------------------------------------------------------------------ claims

\* C1: for deadlines >= 1 and profits > 0, the profits of the returned jobs
\* sum to the maximum total profit over all feasible schedules.
C1_Optimal ==
    (Done /\ DeadlinesValid /\ ProfitsPositive) => SumProfit(Returned) = Best

\* a call on valid jobs that had to drop a job and leave a profitable one out
C1_Witness ==
    /\ Done /\ DeadlinesValid /\ ProfitsPositive
    /\ Len(answer) >= 2
    /\ Len(answer) < Len(arr0)
    /\ SumProfit(Returned) = Best

\* C2: for deadlines >= 1, the job at position k of the returned sequence has
\* deadline >= k.
C2_Feasible ==
    (Done /\ DeadlinesValid) => \A k \in 1..Len(answer) : Returned[k].dead >= k

\* a returned job that sits exactly in its last slot, with another job dropped
C2_Witness ==
    /\ Done /\ DeadlinesValid
    /\ Len(answer) >= 2
    /\ Len(answer) < Len(arr0)
    /\ \E k \in 1..Len(answer) : Returned[k].dead = k

C4_Length ==
    DeadlinesValid =>
        /\ Len(result) <= MaxDeadline /\ Len(result) <= Len(arr0)
        /\ Len(answer) <= MaxDeadline /\ Len(answer) <= Len(arr0)

\* every slot is used and a job is left out
C4_Witness ==
    /\ Done /\ DeadlinesValid
    /\ Len(answer) = MaxDeadline
    /\ Len(answer) < Len(arr0)
    /\ MaxDeadline >= 2

\* C5: the returned ids are in non-decreasing order of their jobs' deadlines.
C5_Ascending ==
    Done =>
        \A k, l \in 1..Len(answer) : k < l => Returned[k].dead <= Returned[l].dead

\* jobs of different deadlines were returned
C5_Witness ==
    /\ Done
    /\ Len(answer) >= 2
    /\ Returned[1].dead < Returned[Len(answer)].dead

C8_RepeatedDeadlines ==
    [][ /\ ( /\ pc = "loop" /\ pc' = "caller"
             /\ Len(arr0) >= 1
             /\ \A k \in 1..Len(arr0) : arr0[k].dead = 1 )
           => /\ Len(answer') = 1
              /\ \A k \in 1..Len(arr0) :
                    arr0[k].profit <= (CHOOSE j \in Range(arr0) : j.id = answer'[1]).profit
        /\ ( /\ pc = "loop" /\ i > 0
             /\ arr[i + 1].dead = arr[i].dead )
           => /\ result' = result
              /\ Len(pq') = Len(pq) + 1
              /\ arr[i + 1] \in Range(pq')
      ]_vars

\* three jobs of deadline 1, the loop has ended: one committed, two left in the
\* queue
C8_Witness ==
    /\ pc = "loop" /\ i < 0
    /\ Len(arr0) = 3
    /\ \A k \in 1..Len(arr0) : arr0[k].dead = 1
    /\ Len(result) = 1
    /\ Len(pq) = 2

\* C9 as stated: for deadlines >= 1 and profits of any sign, the profits of
\* the returned jobs sum to the maximum over all feasible schedules, the empty
\* schedule included.
C9_OptimalAnySign == (Done /\ DeadlinesValid) => SumProfit(Returned) = Best

\* C10 as stated: no job with deadline <= 0 is returned.
C10_NonPositiveIgnored == Done => \A k \in 1..Len(answer) : Returned[k].dead > 0

\* C10 amended: the loop reads only jobs of the array (the call raises no
\* error), and a job with deadline <= 0 is returned only if some input job has
\* a smaller deadline.
C10_NonPositiveOnlyAboveSmaller ==
    /\ pc = "loop" => i \in (-1) .. (Len(arr) - 1)
    /\ Done =>
          \A k \in 1..Len(answer) :
              Returned[k].dead <= 0 =>
                  \E l \in 1..Len(arr0) : arr0[l].dead < Returned[k].dead

\* of jobs with deadlines -1 and 0 and a valid one, the first is ignored and
\* the other two are returned
C10_Witness ==
    /\ Done
    /\ Len(answer) = 2
    /\ \E k \in 1..Len(arr0) : arr0[k].dead < 0 /\ arr0[k].id \notin Range(answer)
    /\ Returned[1].dead = 0
    /\ Returned[2].dead >= 1

====
